---- MODULE Spec2Model ----
(***************************************************************************)
(* Eagle Eye: extraction, normalisation, assembly and export of channel    *)
(* listings (eagle_eye_main.py, eagle_eye_videos.py, eagle_eye_streams.py, *)
(* eagle_eye_shorts.py, eagle_eye_utils.py).                               *)
(*                                                                         *)
(* Text is a sequence of one-character strings.  A Python int is a         *)
(* sequence of bits, least significant first; a C double is a record       *)
(* [kind, m, e] with value m * 2^e, m an int of at most 53 significant     *)
(* bits (one more right after a carry, which the next rounding removes).   *)
(***************************************************************************)
EXTENDS Integers, Sequences, FiniteSets, TLC

VARIABLES
    number,            \* format_number under test: its argument
    result,            \* format_number under test: its outcome
    pc,                \* where main is
    channels,          \* channels_to_scrape
    idx,               \* position of the for loop of main in channels
    selection,         \* 'videos', 'streams' or 'shorts'
    choice_info,       \* main's choice_info
    max_videos,        \* None or a positive int
    format_selection,  \* list of '1'..'5'
    user_choice_info,  \* the module global of eagle_eye_utils
    data,              \* main's combined list
    fs,                \* files on disk: path -> content
    dirs,              \* directories on disk
    console,           \* what was printed, in order
    runs,              \* per processed channel: what it was given and what it did
    now,               \* the clock, in timestamp ticks
    listed             \* the order in which the summary folder last listed its files

fmtVars == <<number, result>>

runVars == <<pc, channels, idx, selection, choice_info, max_videos, format_selection,
             user_choice_info, data, fs, dirs, console, runs, now, listed>>

vars == <<number, result, pc, channels, idx, selection, choice_info, max_videos,
          format_selection, user_choice_info, data, fs, dirs, console, runs, now, listed>>

----------------------------------------------------------------------------
(* Bounds of the model.                                                    *)

\* longest input of format_number drawn from FmtAlphabet
MaxLen == 4

\* most items listed on one page
MaxItems == 2

\* largest record cap the user enters
MaxCap == 2

\* most calls of merge_summary_files on one folder
MaxMerges == 2

\* the runs of the program on one disk
MaxRuns == 2

----------------------------------------------------------------------------
(* Python int and float arithmetic, as format_number uses it.              *)

Digits == <<"0", "1", "2", "3", "4", "5", "6", "7", "8", "9">>

IsDigit(c) == \E i \in 1..10 : Digits[i] = c

DigitVal(c) == (CHOOSE i \in 1..10 : Digits[i] = c) - 1

RECURSIVE NatBits(_)
NatBits(n) == IF n = 0 THEN <<>> ELSE <<n % 2>> \o NatBits(n \div 2)

RECURSIVE Pow10(_)
Pow10(j) == IF j = 0 THEN 1 ELSE 10 * Pow10(j - 1)

Zeros(n) == [i \in 1..n |-> 0]

\* without the high zero bits
Trim(b) ==
    LET ones == {i \in 1..Len(b) : b[i] = 1}
    IN  IF ones = {} THEN <<>>
        ELSE SubSeq(b, 1, CHOOSE i \in ones : \A j \in ones : j <= i)

\* b * c + carry over the bits of b, low half first: the product bits of the
\* length of b and the carry out
RECURSIVE MulFrom(_, _, _)
MulFrom(b, c, carry) ==
    IF b = <<>> THEN [bits |-> <<>>, carry |-> carry]
    ELSE IF Len(b) = 1
    THEN LET t == b[1] * c + carry IN [bits |-> <<t % 2>>, carry |-> t \div 2]
    ELSE LET h  == Len(b) \div 2
             lo == MulFrom(SubSeq(b, 1, h), c, carry)
         IN  IF lo.carry < 0 THEN lo
             ELSE LET hi == MulFrom(SubSeq(b, h + 1, Len(b)), c, lo.carry)
                  IN  [bits |-> lo.bits \o hi.bits, carry |-> hi.carry]

\* b * c + carry, c and carry small
MulSmall(b, c, carry) ==
    LET p == MulFrom(b, c, carry) IN p.bits \o NatBits(p.carry)

\* long division of b by the small d, high half first, r0 the remainder
\* carried in
RECURSIVE DivFrom(_, _, _)
DivFrom(b, d, r0) ==
    IF b = <<>> THEN [q |-> <<>>, r |-> r0]
    ELSE IF Len(b) = 1
    THEN LET t == 2 * r0 + b[1]
         IN  [q |-> <<IF t >= d THEN 1 ELSE 0>>, r |-> IF t >= d THEN t - d ELSE t]
    ELSE LET h  == Len(b) \div 2
             hi == DivFrom(SubSeq(b, h + 1, Len(b)), d, r0)
         IN  IF hi.r < 0 THEN hi
             ELSE LET lo == DivFrom(SubSeq(b, 1, h), d, hi.r)
                  IN  [q |-> lo.q \o hi.q, r |-> lo.r]

\* quotient and remainder of b by the small d
DivSmall(b, d) == DivFrom(b, d, 0)

\* b + 1
Inc(b) ==
    LET zs == {i \in 1..Len(b) : b[i] = 0}
    IN  IF zs = {} THEN Zeros(Len(b)) \o <<1>>
        ELSE LET z == CHOOSE i \in zs : \A j \in zs : i <= j
             IN  [i \in 1..Len(b) |-> IF i < z THEN 0 ELSE IF i = z THEN 1 ELSE b[i]]

\* the int written by a sequence of decimal digits
RECURSIVE DecBits(_)
DecBits(ds) ==
    IF ds = <<>> THEN <<>>
    ELSE IF Len(ds) = 1 THEN NatBits(DigitVal(ds[1]))
    ELSE MulSmall(DecBits(SubSeq(ds, 1, Len(ds) - 1)), 10, DigitVal(ds[Len(ds)]))

\* b * 10^j
RECURSIVE MulPow10(_, _)
MulPow10(b, j) ==
    IF j <= 9 THEN MulSmall(b, Pow10(j), 0)
    ELSE MulPow10(MulPow10(b, j \div 2), j - (j \div 2))

\* floor(b / 10^j), and whether anything was cut off
RECURSIVE DivPow10(_, _)
DivPow10(b, j) ==
    IF j <= 9
    THEN LET d == DivSmall(b, Pow10(j)) IN [q |-> d.q, sticky |-> d.r # 0]
    ELSE LET first == DivPow10(b, j \div 2)
             rest  == DivPow10(first.q, j - (j \div 2))
         IN  [q |-> rest.q, sticky |-> first.sticky \/ rest.sticky]

\* round n * 2^e (plus a cut-off part when sticky) to the nearest double,
\* ties to even
RoundDouble(n, sticky, e) ==
    LET b == Trim(n)
        L == Len(b)
    IN  IF L <= 53 THEN [kind |-> "finite", m |-> b, e |-> e]
        ELSE LET drop  == L - 53
                 hi    == SubSeq(b, drop + 1, L)
                 guard == b[drop]
                 rest  == sticky \/ \E i \in 1..(drop - 1) : b[i] = 1
                 up    == guard = 1 /\ (rest \/ hi[1] = 1)
             IN  [kind |-> "finite", m |-> IF up THEN Inc(hi) ELSE hi, e |-> e + drop]

DoubleInf == [kind |-> "inf", m |-> <<>>, e |-> 0]
DoubleNan == [kind |-> "nan", m |-> <<>>, e |-> 0]

\* a rounded value of 2^1024 or more is inf
Overflowed(d) == IF d.kind = "finite" /\ Len(d.m) + d.e > 1024 THEN DoubleInf ELSE d

\* the double nearest to digs * 10^sc (a value of 10^309 or more is inf)
DecimalToDouble(digs, sc) ==
    LET p == Trim(DecBits(digs))
    IN  IF p = <<>> THEN [kind |-> "finite", m |-> <<>>, e |-> 0]
        ELSE IF sc >= 0
        THEN IF sc > 308 THEN DoubleInf
             ELSE Overflowed(RoundDouble(MulPow10(p, sc), FALSE, 0))
        ELSE LET s == 64 + 4 * (-sc)
                 d == DivPow10(Zeros(s) \o p, -sc)
             IN  RoundDouble(d.q, d.sticky, -s)

LowerCase(c) ==
    CASE c = "I" -> "i" [] c = "N" -> "n" [] c = "F" -> "f" [] c = "A" -> "a"
      [] c = "T" -> "t" [] c = "Y" -> "y" [] OTHER -> c

\* value of the exponent digits, capped (anything above 9999 overflows anyway)
RECURSIVE ExpVal(_)
ExpVal(ds) ==
    IF ds = <<>> THEN 0
    ELSE LET v == 10 * ExpVal(SubSeq(ds, 1, Len(ds) - 1)) + DigitVal(ds[Len(ds)])
         IN  IF v > 9999 THEN 9999 ELSE v

\* float(s) for text without sign, blank or underscore: a failed parse is
\* the ValueError of float()
ParseFloat(s) ==
    LET low    == [i \in 1..Len(s) |-> LowerCase(s[i])]
        epos   == {i \in 1..Len(s) : s[i] \in {"e", "E"}}
        ep     == IF epos = {} THEN 0 ELSE CHOOSE i \in epos : \A j \in epos : i <= j
        mant   == IF ep = 0 THEN s ELSE SubSeq(s, 1, ep - 1)
        ex     == IF ep = 0 THEN <<>> ELSE SubSeq(s, ep + 1, Len(s))
        dots   == {i \in 1..Len(mant) : mant[i] = "."}
        digs   == SelectSeq(mant, IsDigit)
        formed == /\ Cardinality(dots) <= 1
                  /\ \A i \in 1..Len(mant) : IsDigit(mant[i]) \/ mant[i] = "."
                  /\ Len(digs) >= 1
                  /\ ep # 0 => (Len(ex) >= 1 /\ \A i \in 1..Len(ex) : IsDigit(ex[i]))
        k      == IF dots = {} THEN 0 ELSE Len(mant) - (CHOOSE i \in dots : TRUE)
    IN  IF low \in {<<"i", "n", "f">>, <<"i", "n", "f", "i", "n", "i", "t", "y">>}
        THEN [ok |-> TRUE, val |-> DoubleInf]
        ELSE IF low = <<"n", "a", "n">> THEN [ok |-> TRUE, val |-> DoubleNan]
        ELSE IF ~formed THEN [ok |-> FALSE, val |-> DoubleNan]
        ELSE [ok |-> TRUE, val |-> DecimalToDouble(digs, ExpVal(ex) - k)]

\* num *= multiplier
DoubleMul(d, c) ==
    IF d.kind # "finite" THEN d
    ELSE Overflowed(RoundDouble(MulSmall(d.m, c, 0), FALSE, d.e))

\* int(num) of a finite double: truncation
IntOfDouble(d) ==
    IF d.e >= 0 THEN Trim(Zeros(d.e) \o d.m)
    ELSE IF -d.e >= Len(d.m) THEN <<>>
    ELSE Trim(SubSeq(d.m, 1 - d.e, Len(d.m)))

\* the decimal digits of a small natural
RECURSIVE NatStr(_)
NatStr(n) == IF n < 10 THEN <<Digits[n + 1]>> ELSE NatStr(n \div 10) \o <<Digits[(n % 10) + 1]>>

Pad3(n) == <<Digits[(n \div 100) + 1], Digits[((n \div 10) % 10) + 1], Digits[(n % 10) + 1]>>

\* f"{num:,}" of a non-negative int: group i counted from the right is
\* (b div 1000^i) mod 1000, the leftmost group unpadded
CommaGroups(b) ==
    LET rest(i)  == Trim(DivPow10(b, 3 * i).q)
        group(i) == DivSmall(rest(i), 1000).r
        G        == CHOOSE g \in 1..((Len(b) \div 9) + 1) :
                        rest(g) = <<>> /\ (g = 1 \/ rest(g - 1) # <<>>)
        first    == NatStr(group(G - 1))
        n1       == Len(first)
    IN  [i \in 1..(n1 + 4 * (G - 1)) |->
            IF i <= n1 THEN first[i]
            ELSE LET k == (i - n1 - 1) \div 4
                     c == (i - n1 - 1) % 4
                 IN  IF c = 0 THEN "," ELSE Pad3(group(G - 2 - k))[c]]

FormatInt(b) == CommaGroups(Trim(b))

----------------------------------------------------------------------------
(* eagle_eye_utils.format_number                                           *)

Return(v) == [exc |-> "none", val |-> v]
Raise(e)  == [exc |-> e, val |-> <<>>]

suffix_multiplier == ("K" :> 1000) @@ ("M" :> 1000000) @@ ("k" :> 1000) @@ ("m" :> 1000000)

\* lines 254-261: the product, the int of it and its rendering
FormatProduct(n, num) ==
    IF num.kind = "inf" THEN Raise("OverflowError")
    ELSE IF num.kind = "nan" THEN Return(n)
    ELSE Return(FormatInt(IntOfDouble(num)))

\* a format_number whose except clause hands back the text float() was given
FormatParsedPrefix(n, f, multiplier) ==
    IF ~f.ok THEN Return(SubSeq(n, 1, Len(n) - 1))
    ELSE FormatProduct(n, DoubleMul(f.val, multiplier))

\* from line 252 on, f the outcome of float()
FormatParsed(n, f, multiplier) ==
    IF ~f.ok THEN Return(n) ELSE FormatProduct(n, DoubleMul(f.val, multiplier))

format_number(n) ==
    IF n = <<>> THEN Raise("IndexError")
    ELSE LET suffix   == n[Len(n)]
             suffixed == suffix \in DOMAIN suffix_multiplier
         IN  FormatParsed(n,
                          ParseFloat(IF suffixed THEN SubSeq(n, 1, Len(n) - 1) ELSE n),
                          IF suffixed THEN suffix_multiplier[suffix] ELSE 1)

----------------------------------------------------------------------------
(* Inputs of format_number: every text over FmtAlphabet up to MaxLen, and  *)
(* the texts the documentation of the normaliser names.                    *)

FmtAlphabet == {"1", "2", "4", ".", "K", "M"}

RECURSIVE TextsUpTo(_, _)
TextsUpTo(A, n) ==
    IF n = 0 THEN {<<>>}
    ELSE LET S == TextsUpTo(A, n - 1)
         IN  S \cup {Append(t, c) : t \in {u \in S : Len(u) = n - 1}, c \in A}

FmtExamples ==
    { <<"1", ".", "2", "K">>, <<"2", "M">>, <<"3", "5", "0">>, <<"N", "/", "A">>,
      <<"i", "n", "f">>, <<"n", "a", "n">>, <<"K">>, <<"1", "2", ".", "7">>,
      <<"1", "e", "3">>, <<"1", ",", "2", "3", "4">>, <<"1", "5", "K">>,
      <<"9", "0", "0">>, <<"1", "2", "3", "4", "5", "6", "7">>,
      <<"1", ".", "5", "m">>, <<"3", "k">>, <<"1", ",", "2", "K">>,
      <<"i", "n", "f", "K">>, <<"2", "e", "2", "K">>, <<"1", "e", "4", "0", "0">> }

FmtInputs == TextsUpTo(FmtAlphabet, MaxLen) \cup FmtExamples


----------------------------------------------------------------------------
(* Text operations of Python's str.                                        *)

TAB == "\t"

None == "None"

Min(a, b) == IF a <= b THEN a ELSE b

\* sep.join(fields)
RECURSIVE Join(_, _)
Join(fields, sep) ==
    IF fields = <<>> THEN <<>>
    ELSE IF Len(fields) = 1 THEN fields[1]
    ELSE Join(SubSeq(fields, 1, Len(fields) - 1), sep) \o <<sep>> \o fields[Len(fields)]

\* s.split(sep)
SplitOn(s, sep) ==
    LET seps     == {i \in 1..Len(s) : s[i] = sep}
        nth(k)   == CHOOSE p \in seps : Cardinality({q \in seps : q < p}) = k - 1
        nf       == Cardinality(seps) + 1
        first(k) == IF k = 1 THEN 1 ELSE nth(k - 1) + 1
        last(k)  == IF k = nf THEN Len(s) ELSE nth(k) - 1
    IN  [k \in 1..nf |-> SubSeq(s, first(k), last(k))]

\* s.strip()
Strip(s) ==
    LET keep == {i \in 1..Len(s) : s[i] \notin {" ", "\n", TAB}}
    IN  IF keep = {} THEN <<>>
        ELSE SubSeq(s, CHOOSE i \in keep : \A j \in keep : i <= j,
                       CHOOSE i \in keep : \A j \in keep : j <= i)

\* s.replace(a, b) for one-character a and b
Replace(s, a, b) == [i \in 1..Len(s) |-> IF s[i] = a THEN b ELSE s[i]]

\* s.split(sep)[0]
FirstField(s, sep) == SplitOn(s, sep)[1]

\* s.split(sep)[-1]
LastField(s, sep) == LET f == SplitOn(s, sep) IN f[Len(f)]

\* repr() of a str: a tab is written as backslash and t
RECURSIVE ReprBody(_)
ReprBody(s) ==
    IF s = <<>> THEN <<>>
    ELSE ReprBody(SubSeq(s, 1, Len(s) - 1))
         \o (IF s[Len(s)] = TAB THEN <<"\\", "t">> ELSE <<s[Len(s)]>>)

\* str() of a list of str
ListStr(l) ==
    <<"[">> \o Join([i \in 1..Len(l) |-> <<"'">> \o ReprBody(l[i]) \o <<"'">>], ", ") \o <<"]">>

\* list[first::2], first counted from 1
EveryOther(s, first) ==
    [k \in 1..((Len(s) - first + 2) \div 2) |-> s[first + 2 * (k - 1)]]

----------------------------------------------------------------------------
(* The rendered page of a channel, as BeautifulSoup hands it to            *)
(* scrape_channel: the channel attributes and the fragment sequences of    *)
(* the findAll calls.  Item i of the listing is recognisable in each of    *)
(* its fragments.                                                          *)

ChannelIds == {1, 2}

\* the token the user types for channel c
Token(c) == <<"c", Digits[c + 1]>>

\* the display handle on the page of channel c
Handle(c) == <<"@", "h", Digits[c + 1]>>

Identifier(c) == <<"U", "C", Digits[c + 1]>>

ViewTexts == << <<"1", "5", "K">>, <<"9", "0", "0">>, <<"4", ".", "1", "M">>, <<"1", ".", "2", "K">> >>

RawViews(i) == ViewTexts[((i - 1) % 4) + 1]

TitleOf(i) == <<"T", Digits[i + 1]>>

PublishedOf(i) == <<"P", Digits[i + 1]>>

DurationOf(i) == <<"D", Digits[i + 1]>>

ItemIdOf(i) == <<"I", Digits[i + 1]>>

Origin == <<"https://www.youtube.com">>

\* what can be irregular about one channel's processing
FaultKinds ==
    { "none", "setupFail", "loadFail", "attrsMissing", "metaShort", "metaLong",
      "termOdd", "termShort", "linkShort", "tabTitle", "tabDesc", "tabKeyword",
      "emptyViews", "ioFail" }

\* ioFail: which write of the export fails
Faults ==
    {[kind |-> k, at |-> 0] : k \in FaultKinds \ {"ioFail"}}
        \cup {[kind |-> "ioFail", at |-> w] : w \in 1..4}

\* the metadata spans: a views span and a published span per video or
\* stream, a views span per short
MetaSpans(sel, n, fault) ==
    LET views(i) == IF fault.kind = "emptyViews" /\ i = n THEN <<>>
                    ELSE RawViews(i) \o <<" ", "v", "i", "e", "w", "s">>
        base     == IF sel = "shorts" THEN n ELSE 2 * n
        len      == IF fault.kind = "metaShort" THEN base - 1
                    ELSE IF fault.kind = "metaLong" THEN base + 1
                    ELSE base
    IN  [p \in 1..len |->
            IF sel = "shorts" THEN views(p)
            ELSE IF p % 2 = 1 THEN views((p + 1) \div 2)
            ELSE PublishedOf(p \div 2)]

\* the overlay spans: two per video or stream
TermSpans(sel, n, fault) ==
    LET len == IF sel = "shorts" THEN 0
               ELSE IF fault.kind = "termOdd" THEN 2 * n - 1
               ELSE IF fault.kind = "termShort" THEN 2 * n - 2
               ELSE 2 * n
    IN  [p \in 1..len |-> <<"\n", " ">> \o DurationOf((p + 1) \div 2) \o <<"\n">>]

Hrefs(sel, n, fault) ==
    [i \in 1..(IF fault.kind = "linkShort" THEN n - 1 ELSE n) |->
        IF sel = "shorts" THEN <<"/", "s", "/">> \o ItemIdOf(i)
        ELSE <<"/", "w", "?", "v", "=">> \o ItemIdOf(i)]

Titles(n, fault) ==
    [i \in 1..n |->
        IF fault.kind = "tabTitle" /\ i = 1 THEN <<"T", TAB, Digits[i + 1]>>
        ELSE TitleOf(i)]

Page(sel, c, n, fault) ==
    [ handle       |-> <<"\n", " ">> \o Handle(c) \o <<" ">>,
      identifier   |-> Identifier(c),
      subscribers  |-> <<"2", "M", " ", "s", "u", "b", "s">>,
      description  |-> IF fault.kind = "tabDesc" THEN <<"d", TAB, "e", ",", "\n", "s">>
                       ELSE <<"d", "e", ",", "\n", "s">>,
      keywords     |-> IF fault.kind = "tabKeyword" THEN << <<"k", TAB, "w">> >>
                       ELSE << <<"k">>, <<"w">> >>,
      joined       |-> <<"J", Digits[c + 1]>>,
      location     |-> <<"L", Digits[c + 1]>>,
      global_views |-> <<"G", Digits[c + 1]>>,
      titles       |-> Titles(n, fault),
      metas        |-> MetaSpans(sel, n, fault),
      hrefs        |-> Hrefs(sel, n, fault),
      terms        |-> TermSpans(sel, n, fault) ]

\* an item fault needs an item
Applies(fault, n) ==
    fault.kind \in {"metaShort", "termOdd", "termShort", "linkShort", "tabTitle", "emptyViews"}
        => n >= 1

----------------------------------------------------------------------------
(* The assembly loop of scrape_channel.                                     *)

VideoColumns ==
    << <<"Channel">>, <<"Identifier">>, <<"Title">>, <<"Published">>, <<"Video_views">>,
       <<"Video_id">>, <<"Link">>, <<"Duration">> >>

ShortColumns ==
    << <<"Channel">>, <<"Identifier">>, <<"Title">>, <<"Video_views">>, <<"Video_id">>,
       <<"Link">> >>

SummaryColumns ==
    << <<"Channel">>, <<"Identifier">>, <<"Description">>, <<"Keywords">>, <<"Subscribers">>,
       <<"Joined">>, <<"Location">>, <<"Global_views">> >>

\* the header line scrape_channel writes to the summary TXT file
SummaryTxtHeader ==
    << <<"Channel">>, <<"Identifier">>, <<"Description">>, <<"Keywords">>, <<"Subscribers">>,
       <<"Joined">>, <<"location">>, <<"global_views">> >>

\* a loop body that takes the channel name of record i from the title of item i
VideoRowNamedByItem(page, cname, i, view) ==
    IF view.exc # "none" THEN [ok |-> FALSE, row |-> <<>>]
    ELSE [ ok  |-> TRUE,
           row |-> SplitOn(Join(<<page.titles[i], page.identifier, page.titles[i],
                                  EveryOther(page.metas, 2)[i], view.val,
                                  LastField(page.hrefs[i], "="),
                                  Origin \o page.hrefs[i],
                                  Strip(EveryOther(page.terms, 1)[i])>>, TAB), TAB) ]

\* lines 276-285 of the loop body of the videos and streams scrape_channel at
\* index i (from 1), view the outcome of format_number
VideoRow(page, cname, i, view) ==
    IF view.exc # "none" THEN [ok |-> FALSE, row |-> <<>>]
    ELSE [ ok  |-> TRUE,
           row |-> SplitOn(Join(<<cname, page.identifier, page.titles[i],
                                  EveryOther(page.metas, 2)[i], view.val,
                                  LastField(page.hrefs[i], "="),
                                  Origin \o page.hrefs[i],
                                  Strip(EveryOther(page.terms, 1)[i])>>, TAB), TAB) ]

\* one pass of the loop body of the videos and streams scrape_channel: ok is
\* FALSE when a read raises
VideoItem(page, cname, i) ==
    IF /\ i <= Len(page.titles)
       /\ i <= Len(EveryOther(page.metas, 2))
       /\ i <= Len(EveryOther(page.metas, 1))
       /\ i <= Len(page.hrefs)
       /\ i <= Len(EveryOther(page.terms, 1))
    THEN VideoRow(page, cname, i,
                  format_number(FirstField(EveryOther(page.metas, 1)[i], " ")))
    ELSE [ok |-> FALSE, row |-> <<>>]

ShortRow(page, cname, i, view) ==
    IF view.exc # "none" THEN [ok |-> FALSE, row |-> <<>>]
    ELSE [ ok  |-> TRUE,
           row |-> SplitOn(Join(<<cname, page.identifier, page.titles[i], view.val,
                                  LastField(page.hrefs[i], "/"),
                                  Origin \o page.hrefs[i]>>, TAB), TAB) ]

\* one pass of the loop body of the shorts scrape_channel
ShortItem(page, cname, i) ==
    IF i <= Len(page.titles) /\ i <= Len(page.metas) /\ i <= Len(page.hrefs)
    THEN ShortRow(page, cname, i, format_number(FirstField(page.metas[i], " ")))
    ELSE [ok |-> FALSE, row |-> <<>>]

\* how many passes the loop makes when none raises
LoopLimit(total, max) == IF max = <<>> THEN total ELSE Min(total, max[1])

\* video_data after the loop, items the passes in order: a pass that raises
\* ends the loop and leaves the records appended so far
Collect(items) ==
    LET bad  == {i \in 1..Len(items) : ~items[i].ok}
        stop == IF bad = {} THEN Len(items)
                ELSE (CHOOSE i \in bad : \A j \in bad : i <= j) - 1
    IN  [ video_data |-> [i \in 1..stop |-> items[i].row],
          raised     |-> bad # {},
          entered    |-> Len(items) >= 1 ]

\* for i in range(total): break at max_videos; video_data.append(...)
Assemble(sel, page, cname, max) ==
    Collect([i \in 1..LoopLimit(Len(page.titles), max) |->
                IF sel = "shorts" THEN ShortItem(page, cname, i)
                ELSE VideoItem(page, cname, i)])

----------------------------------------------------------------------------
(* Files.  A path is [dir, stem, ext]: the directory components, the parts *)
(* of the file name that '_' joins, and the extension.  A TXT file is its  *)
(* lines; a CSV, XLSX or JSON file is a header and rows.                   *)

Downloads == << <<"downloads">> >>

SummaryFolder == << <<"downloads">>, <<"summary_channels">> >>

Stamp(ts) == <<"t">> \o NatStr(ts)

Exts == <<"txt", "csv", "xlsx", "json">>

\* pd.DataFrame(rows, columns=columns): a row longer than columns raises
\* ValueError, a shorter one is filled up
DataFrame(rows, columns) ==
    [ raised |-> \E i \in 1..Len(rows) : Len(rows[i]) > Len(columns),
      header |-> columns,
      rows   |-> [i \in 1..Len(rows) |->
                    [k \in 1..Len(columns) |->
                        IF k <= Len(rows[i]) THEN rows[i][k] ELSE <<>>]] ]

\* texts pd.read_csv reads as a missing value (its default na_values, the
\* ones made of letters among them)
NaWords ==
    { <<>>, <<"N", "A">>, <<"N", "/", "A">>, <<"n", "/", "a">>, <<"N", "a", "N">>,
      <<"n", "a", "n">>, <<"N", "U", "L", "L">>, <<"n", "u", "l", "l">>,
      <<"N", "o", "n", "e">>, <<"#", "N", "/", "A">>, <<"<", "N", "A", ">">> }

\* an unsigned integer literal
IsIntLiteral(t) == t # <<>> /\ \A i \in 1..Len(t) : IsDigit(t[i])

\* str() of the int an unsigned integer literal denotes
IntText(t) ==
    LET nz == {i \in 1..Len(t) : t[i] # "0"}
    IN  IF nz = {} THEN <<"0">>
        ELSE SubSeq(t, CHOOSE i \in nz : \A j \in nz : i <= j, Len(t))

\* the dtype pd.read_csv infers for a column: int64 when every cell is an
\* integer literal, float64 when the others are missing values, else object
\* (cells are missing values, unsigned integer literals below 2^53, or texts
\* that are no number literal)
ColumnKind(cells) ==
    LET vals == {i \in 1..Len(cells) : cells[i] \notin NaWords}
    IN  IF \E i \in vals : ~IsIntLiteral(cells[i]) THEN "object"
        ELSE IF Cardinality(vals) < Len(cells) THEN "float"
        ELSE "int"

\* a cell as to_csv, to_excel and to_json write it from a column of a dtype
CellText(cell, kind) ==
    IF cell \in NaWords THEN <<>>
    ELSE IF kind = "int" THEN IntText(cell)
    ELSE IF kind = "float" THEN IntText(cell) \o <<".", "0">>
    ELSE cell

\* the frame pd.read_csv makes of a header and the cells below it
Parsed(header, cells) ==
    [ header |-> header,
      cells  |-> cells,
      kinds  |-> [c \in 1..Len(header) |->
                    ColumnKind([i \in 1..Len(cells) |-> cells[i][c]])] ]

\* the rows of a frame as written out, kinds the dtypes of its columns
FrameRows(frame, kinds) ==
    [i \in 1..Len(frame.cells) |->
        [c \in 1..Len(frame.header) |-> CellText(frame.cells[i][c], kinds[c])]]

\* pd.read_csv(f, sep='\t') of the lines of a TXT file: the fields the first
\* data line has beyond the header are index columns; a later line with more
\* fields than that raises ParserError, one with fewer is filled up
read_tsv(lines) ==
    LET header  == SplitOn(lines[1], TAB)
        n       == Len(lines) - 1
        row(i)  == SplitOn(lines[i + 1], TAB)
        lead    == IF n >= 1 /\ Len(row(1)) > Len(header) THEN Len(row(1)) - Len(header)
                   ELSE 0
        cells   == [i \in 1..n |->
                      [k \in 1..Len(header) |->
                          IF lead + k <= Len(row(i)) THEN row(i)[lead + k] ELSE <<>>]]
    IN  [ raised |-> \E i \in 1..n : Len(row(i)) > Len(header) + lead,
          header |-> header,
          rows   |-> FrameRows(Parsed(header, cells), Parsed(header, cells).kinds) ]

TxtFile(headerNames, rows) ==
    [ form  |-> "lines",
      lines |-> <<Join(headerNames, TAB)>> \o [i \in 1..Len(rows) |-> Join(rows[i], TAB)] ]

TableFile(df) == [form |-> "table", header |-> df.header, rows |-> df.rows]

\* an export that goes on to the next write when one has failed
ExportFilesCarryOn(fs0, dir, stem, txt, df, fault) ==
    LET fails   == (IF fault.kind = "ioFail" THEN {fault.at} ELSE {})
                       \cup (IF df.raised THEN {2} ELSE {})
        path(k) == [dir |-> dir, stem |-> stem, ext |-> Exts[k]]
        written == {path(k) : k \in (1..4) \ fails}
    IN  [ fs     |-> [p \in DOMAIN fs0 \cup written |->
                        IF p \in written
                        THEN IF p.ext = "txt" THEN txt ELSE TableFile(df)
                        ELSE fs0[p]],
          failed |-> fails # {} ]

\* the four writes of a per-channel export, in the order txt, csv, xlsx, json,
\* up to the first one that raises: fault ioFail makes write fault.at raise,
\* and a DataFrame that cannot be built raises before the csv write
ExportFiles(fs0, dir, stem, txt, df, fault) ==
    LET fails   == (IF fault.kind = "ioFail" THEN {fault.at} ELSE {})
                       \cup (IF df.raised THEN {2} ELSE {})
        stop    == IF fails = {} THEN 5 ELSE CHOOSE k \in fails : \A j \in fails : k <= j
        path(k) == [dir |-> dir, stem |-> stem, ext |-> Exts[k]]
        written == {path(k) : k \in 1..(stop - 1)}
    IN  [ fs     |-> [p \in DOMAIN fs0 \cup written |->
                        IF p \in written
                        THEN IF p.ext = "txt" THEN txt ELSE TableFile(df)
                        ELSE fs0[p]],
          failed |-> fails # {} ]

----------------------------------------------------------------------------
(* eagle_eye_utils.merge_summary_files                                     *)

\* a match on the name alone, whatever the extension
IsSummaryAnyExt(p) == Len(p.stem) >= 2 /\ p.stem[Len(p.stem)] = <<"summary">>

\* a match on 'summary' anywhere in the name of a CSV file
IsSummaryAnywhere(p) == p.ext = "csv" /\ \E i \in 1..Len(p.stem) : p.stem[i] = <<"summary">>

\* file.endswith("_summary.csv")
IsSummaryCsv(p) == p.ext = "csv" /\ Len(p.stem) >= 2 /\ p.stem[Len(p.stem)] = <<"summary">>

\* every order in which os.listdir may list the files of a folder
Listings(fs0, folder) ==
    LET files == {p \in DOMAIN fs0 : p.dir = folder}
    IN  {l \in [1..Cardinality(files) -> files] :
            \A i, j \in 1..Cardinality(files) : i # j => l[i] # l[j]}

\* pd.concat(frames, ignore_index=True): the rows of the frames, frame after frame
RECURSIVE ConcatRows(_)
ConcatRows(frames) ==
    IF frames = <<>> THEN <<>>
    ELSE ConcatRows(SubSeq(frames, 1, Len(frames) - 1)) \o frames[Len(frames)].rows

\* the dtypes of the columns of frame k once pd.concat has put the frames
\* together: a column that is int64 or float64 in every frame becomes
\* float64 if it is float64 in one of them
ConcatKinds(frames, k) ==
    [c \in 1..Len(frames[k].header) |->
        IF \E j \in 1..Len(frames) : frames[j].kinds[c] = "object" THEN frames[k].kinds[c]
        ELSE IF \E j \in 1..Len(frames) : frames[j].kinds[c] = "float" THEN "float"
        ELSE "int"]

merge_summary_files(fs0, folder, listing) ==
    LET summary_files == SelectSeq(listing, IsSummaryCsv)
        frames        == [k \in 1..Len(summary_files) |->
                            Parsed(fs0[summary_files[k]].header, fs0[summary_files[k]].rows)]
        merged        == [ form   |-> "table",
                           header |-> frames[1].header,
                           rows   |-> ConcatRows([k \in 1..Len(frames) |->
                                         [rows |-> FrameRows(frames[k], ConcatKinds(frames, k))]]) ]
        out           == {[dir |-> folder, stem |-> << <<"summary">>, <<"all">>, <<"channels">> >>,
                           ext |-> Exts[k]] : k \in 1..4}
    IN  IF summary_files = <<>>
        THEN [fs |-> fs0, console |-> <<[what |-> "no summary files", about |-> <<>>]>>]
        ELSE [ fs      |-> [p \in DOMAIN fs0 \cup out |-> IF p \in out THEN merged ELSE fs0[p]],
               console |-> <<[what |-> "merged", about |-> <<>>]>> ]

----------------------------------------------------------------------------
(* scrape_channel of eagle_eye_videos, eagle_eye_streams, eagle_eye_shorts. *)
(* The outcome is "ok" when the try block ran to its end, "failed" when    *)
(* the except clause caught an exception, and "crashed" when the finally   *)
(* clause itself raised: 'driver' is unbound when setup_webdriver raised,  *)
(* so 'if driver:' raises UnboundLocalError out of scrape_channel.         *)

ErrorReport(token) == <<[what |-> "error", about |-> token]>>

Outcome(o, vd, cd, f, d, msgs) ==
    [outcome |-> o, video_data |-> vd, channel_data |-> cd, fs |-> f, dirs |-> d,
     console |-> msgs]

\* what the try block does up to the loop, the same in the three modules
BeforeLoop(token, fault, fs0, dirs0) ==
    IF fault.kind = "setupFail"
    THEN Outcome("crashed", <<>>, <<>>, fs0, dirs0, ErrorReport(token))
    ELSE Outcome("failed", <<>>, <<>>, fs0, dirs0, ErrorReport(token))

\* the end of scrape_channel after the writes of an item export
ExportOutcome(token, video_data, channel_data, dirs1, ex) ==
    Outcome(IF ex.failed THEN "failed" ELSE "ok", video_data, channel_data, ex.fs, dirs1,
            IF ex.failed THEN ErrorReport(token) ELSE <<>>)

\* the merge that ends a summary export whose writes went through
MergeOutcome(video_data, channel_data, dirs1, merge) ==
    Outcome("ok", video_data, channel_data, merge.fs, dirs1, merge.console)

\* the summary branch of the videos scrape_channel
SummaryWritten(token, video_data, channel_data, dirs1, listing, ex) ==
    IF ex.failed
    THEN Outcome("failed", video_data, channel_data, ex.fs, dirs1, ErrorReport(token))
    ELSE MergeOutcome(video_data, channel_data, dirs1,
                      merge_summary_files(ex.fs, SummaryFolder, listing))

SummaryOutcome(token, video_data, dirs1, listing, fs0, folder, stem, fault, channel_data) ==
    SummaryWritten(token, video_data, channel_data, dirs1, listing,
        ExportFiles(fs0, folder, stem, TxtFile(SummaryTxtHeader, channel_data),
                    DataFrame(channel_data, SummaryColumns), fault))

\* the videos scrape_channel from the end of its loop on
videos_after_loop(token, page, fault, choice, fs0, dirs0, listing, ts, cname, subscribers, asm) ==
    LET folder == << <<"downloads">>, cname >>
        dirs1  == dirs0 \cup {Downloads, folder}
    IN  IF asm.raised
        THEN Outcome("failed", asm.video_data, <<>>, fs0, dirs0, ErrorReport(token))
        ELSE IF choice = "1"
        THEN ExportOutcome(token, asm.video_data, <<>>, dirs1,
                 ExportFiles(fs0, folder, <<cname, <<"videos">>, Stamp(ts)>>,
                             TxtFile(VideoColumns, asm.video_data),
                             DataFrame(asm.video_data, VideoColumns), fault))
        ELSE IF ~asm.entered
        \* channel_id, keyword and subscriber are names bound in the loop body
        THEN Outcome("failed", asm.video_data, <<>>, fs0, dirs1, ErrorReport(token))
        ELSE SummaryOutcome(token, asm.video_data, dirs1 \cup {SummaryFolder}, listing,
                 fs0, folder, <<cname, <<"summary">>, Stamp(ts)>>, fault,
                 <<SplitOn(Join(<<cname, page.identifier,
                                  Replace(Replace(page.description, "\n", " "), ",", ";"),
                                  ListStr(page.keywords), subscribers.val, page.joined,
                                  page.location, page.global_views>>, TAB), TAB)>>)

\* the videos scrape_channel from the subscriber count on
videos_after_attrs(token, page, fault, max, choice, fs0, dirs0, listing, ts, cname, subscribers) ==
    IF subscribers.exc # "none"
    THEN Outcome("failed", <<>>, <<>>, fs0, dirs0, ErrorReport(token))
    ELSE videos_after_loop(token, page, fault, choice, fs0, dirs0, listing, ts, cname,
                           subscribers, Assemble("videos", page, cname, max))

videos_scrape_channel(token, page, fault, max, choice, fs0, dirs0, listing, ts) ==
    IF fault.kind \in {"setupFail", "loadFail", "attrsMissing"}
    THEN BeforeLoop(token, fault, fs0, dirs0)
    ELSE videos_after_attrs(token, page, fault, max, choice, fs0, dirs0, listing, ts,
                            Strip(page.handle),
                            format_number(FirstField(Strip(page.subscribers), " ")))

streams_after_loop(token, fault, fs0, dirs0, ts, cname, asm) ==
    IF asm.raised
    THEN Outcome("failed", asm.video_data, <<>>, fs0, dirs0, ErrorReport(token))
    ELSE ExportOutcome(token, asm.video_data, <<>>,
             dirs0 \cup {Downloads, << <<"downloads">>, cname >>},
             ExportFiles(fs0, << <<"downloads">>, cname >>,
                         <<cname, <<"streams">>, Stamp(ts)>>,
                         TxtFile(VideoColumns, asm.video_data),
                         DataFrame(asm.video_data, VideoColumns), fault))

streams_scrape_channel(token, page, fault, max, fs0, dirs0, ts) ==
    IF fault.kind \in {"setupFail", "loadFail", "attrsMissing"}
    THEN BeforeLoop(token, fault, fs0, dirs0)
    ELSE streams_after_loop(token, fault, fs0, dirs0, ts, Strip(page.handle),
                            Assemble("streams", page, Strip(page.handle), max))

\* the shorts files go to the working directory, without a timestamp, and
\* the csv, xlsx and json files are made from the TXT file read back
shorts_export(token, fault, fs0, dirs0, cname, video_data, txt) ==
    ExportOutcome(token, video_data, <<>>, dirs0,
        ExportFiles(fs0, <<>>, <<cname, <<"shorts">> >>, txt, read_tsv(txt.lines), fault))

shorts_after_loop(token, fault, fs0, dirs0, cname, asm) ==
    IF asm.raised
    THEN Outcome("failed", asm.video_data, <<>>, fs0, dirs0, ErrorReport(token))
    ELSE shorts_export(token, fault, fs0, dirs0, cname, asm.video_data,
                       TxtFile(ShortColumns, asm.video_data))

shorts_scrape_channel(token, page, fault, max, fs0, dirs0) ==
    IF fault.kind \in {"setupFail", "loadFail", "attrsMissing"}
    THEN BeforeLoop(token, fault, fs0, dirs0)
    ELSE shorts_after_loop(token, fault, fs0, dirs0, Strip(page.handle),
                           Assemble("shorts", page, Strip(page.handle), max))

----------------------------------------------------------------------------
(* eagle_eye_main.main                                                     *)

ChannelLists == {<<1>>, <<1, 2>>, <<1, 1>>}

\* a run over one channel
SingleChannel == {<<1>>}

FormatSelections == {<<"5">>, <<"1">>, <<"2", "4">>}

\* the irregularities explored in runs over several channels: one of each way
\* a channel's processing can end
RunFaults ==
    {f \in Faults : \/ f.kind \in {"none", "setupFail", "loadFail", "metaShort", "tabTitle"}
                    \/ f.kind = "ioFail" /\ f.at = 3}

\* max_videos: <<>> is None, <<k>> the int k
CapChoices == {<<>>} \cup {<<k>> : k \in 1..MaxCap}

\* a get_user_choice_info that asks at every call
AskEveryTime(cached, answer) == answer

\* get_user_choice_info: the cached value when there is one, else the answer
\* entered at the prompt
get_user_choice_info(cached, answer) == IF cached # None THEN cached ELSE answer

Init ==
    /\ number = <<>>
    /\ result = [exc |-> "pending", val |-> <<>>]
    /\ pc = "prompt"
    /\ channels = <<>>
    /\ idx = 1
    /\ selection = None
    /\ choice_info = None
    /\ max_videos = <<>>
    /\ format_selection = <<>>
    /\ user_choice_info = None
    /\ data = <<>>
    /\ fs = <<>>
    /\ dirs = {}
    /\ console = <<>>
    /\ runs = <<>>
    /\ now = 1
    /\ listed = <<>>

\* main up to its for loop: the prompts and the downloads directory
PromptFor(lists) ==
    /\ pc = "prompt"
    /\ \E chs \in lists, sel \in {"videos", "streams", "shorts"},
          answer \in {"1", "2"}, cap \in CapChoices, fmt \in FormatSelections :
          /\ channels' = chs
          /\ selection' = sel
          /\ IF sel = "videos"
             THEN /\ choice_info' = get_user_choice_info(user_choice_info, answer)
                  /\ user_choice_info' = get_user_choice_info(user_choice_info, answer)
             ELSE /\ answer = "1"
                  /\ choice_info' = "1"
                  /\ UNCHANGED user_choice_info
          /\ max_videos' = cap
          /\ format_selection' = fmt
    /\ dirs' = dirs \cup {Downloads}
    /\ pc' = "scrape"
    /\ UNCHANGED <<number, result, idx, data, fs, console, runs, now, listed>>

Prompt == PromptFor(ChannelLists)

PromptOne == PromptFor(SingleChannel)

\* an extend that puts the further records in front
ExtendInFront(list, more) == more \o list

\* data.extend(scraped_data)
extend(list, more) == list \o more

\* what one pass of main's for loop does with the outcome of scrape_channel
AfterScrape(c, n, fault, choice, r) ==
    /\ runs' = Append(runs, [channel |-> c, n |-> n, fault |-> fault, outcome |-> r.outcome,
                             video_data |-> r.video_data, channel_data |-> r.channel_data,
                             stamp |-> now, choice |-> choice,
                             prompted |-> choice # None /\ user_choice_info = None])
    /\ fs' = r.fs
    /\ dirs' = r.dirs
    /\ console' = console \o r.console
    /\ now' = now + 1
    /\ IF r.outcome = "crashed"
       THEN /\ pc' = "crashed"
            /\ UNCHANGED <<data, idx>>
       ELSE /\ data' = extend(data, r.video_data)
            /\ idx' = idx + 1
            /\ pc' = IF idx = Len(channels) THEN "combine" ELSE "scrape"
    /\ user_choice_info' = IF choice # None THEN choice ELSE user_choice_info
    /\ UNCHANGED <<number, result, channels, selection, choice_info, max_videos,
                   format_selection, listed>>

\* one pass of main's for loop, selection 'videos': scrape_channel puts the
\* outcome of its own get_user_choice_info() in the place of its argument
ScrapeVideosWith(faults) ==
    /\ pc = "scrape"
    /\ selection = "videos"
    /\ \E n \in 0..MaxItems, fault \in faults, listing \in Listings(fs, SummaryFolder),
          answer \in {"1", "2"} :
          /\ Applies(fault, n)
          /\ AfterScrape(channels[idx], n, fault,
                get_user_choice_info(user_choice_info, answer),
                videos_scrape_channel(Token(channels[idx]),
                                      Page("videos", channels[idx], n, fault), fault,
                                      max_videos,
                                      get_user_choice_info(user_choice_info, answer),
                                      fs, dirs, listing, now))

\* one pass of main's for loop, selection 'streams'
ScrapeStreamsWith(faults) ==
    /\ pc = "scrape"
    /\ selection = "streams"
    /\ \E n \in 0..MaxItems, fault \in faults :
          /\ Applies(fault, n)
          /\ AfterScrape(channels[idx], n, fault, None,
                streams_scrape_channel(Token(channels[idx]),
                                       Page("streams", channels[idx], n, fault), fault,
                                       max_videos, fs, dirs, now))

\* one pass of main's for loop, selection 'shorts'
ScrapeShortsWith(faults) ==
    /\ pc = "scrape"
    /\ selection = "shorts"
    /\ \E n \in 0..MaxItems, fault \in faults :
          /\ Applies(fault, n)
          /\ AfterScrape(channels[idx], n, fault, None,
                shorts_scrape_channel(Token(channels[idx]),
                                      Page("shorts", channels[idx], n, fault), fault,
                                      max_videos, fs, dirs))

ScrapeVideos == ScrapeVideosWith(RunFaults)

ScrapeStreams == ScrapeStreamsWith(RunFaults)

ScrapeShorts == ScrapeShortsWith(RunFaults)

ScrapeVideosAny == ScrapeVideosWith(Faults)

ScrapeStreamsAny == ScrapeStreamsWith(Faults)

ScrapeShortsAny == ScrapeShortsWith(Faults)

\* main after its for loop
Combine ==
    /\ pc = "combine"
    /\ LET columns  == IF selection = "shorts" THEN ShortColumns ELSE VideoColumns
           df       == DataFrame(data, columns)
           folder   == << <<"downloads">>, <<"all_", selection, "_channels">> >>
           out      == {[dir |-> folder,
                         stem |-> << <<"all">>, <<selection>>, <<"eagle">>, <<"eye">>, Stamp(now)>>,
                         ext |-> Exts[k]] : k \in 1..4}
           rowsFile == [form |-> "table", header |-> columns, rows |-> data]
           txtFile  == TxtFile(columns, data)
       IN  IF data = <<>>
           THEN /\ console' = Append(console, [what |-> "no data", about |-> <<>>])
                /\ pc' = "done"
                /\ UNCHANGED <<fs, dirs>>
           ELSE IF df.raised
           THEN /\ pc' = "crashed"
                /\ UNCHANGED <<fs, dirs, console>>
           ELSE IF "5" \in {format_selection[i] : i \in 1..Len(format_selection)}
           THEN IF choice_info = "1"
                THEN /\ dirs' = dirs \cup {folder}
                     /\ fs' = [p \in DOMAIN fs \cup out |->
                                 IF p \in out
                                 THEN IF p.ext = "csv" THEN rowsFile
                                      ELSE IF p.ext = "txt" THEN txtFile
                                      ELSE TableFile(df)
                                 ELSE fs[p]]
                     /\ console' = console \o <<[what |-> "saved all", about |-> <<>>],
                                                [what |-> "total", about |-> <<Len(data)>>],
                                                [what |-> "completed", about |-> <<>>]>>
                     /\ pc' = "done"
                ELSE /\ console' = console \o <<[what |-> "total", about |-> <<Len(data)>>],
                                                [what |-> "completed", about |-> <<>>]>>
                     /\ pc' = "done"
                     /\ UNCHANGED <<fs, dirs>>
           ELSE IF choice_info = "1"
           \* channels_folder and current_datetime are unbound on this branch
           THEN /\ pc' = "crashed"
                /\ UNCHANGED <<fs, dirs, console>>
           ELSE /\ console' = console \o <<[what |-> "total", about |-> <<Len(data)>>],
                                           [what |-> "completed", about |-> <<>>]>>
                /\ pc' = "done"
                /\ UNCHANGED <<fs, dirs>>
    /\ UNCHANGED <<number, result, channels, idx, selection, choice_info, max_videos,
                   format_selection, user_choice_info, data, runs, now, listed>>

Next == Prompt \/ ScrapeVideos \/ ScrapeStreams \/ ScrapeShorts \/ Combine

Spec == Init /\ [][Next]_vars

\* a run over one channel, with every irregularity of its page and export
NextChannel == PromptOne \/ ScrapeVideosAny \/ ScrapeStreamsAny \/ ScrapeShortsAny \/ Combine

SpecChannel == Init /\ [][NextChannel]_vars

----------------------------------------------------------------------------
(* The program run again and again over one channel, on the same disk.     *)

\* pages and exports without irregularity
NoFaults == {f \in Faults : f.kind = "none"}

ScrapeVideosOk == ScrapeVideosWith(NoFaults)

ScrapeStreamsOk == ScrapeStreamsWith(NoFaults)

ScrapeShortsOk == ScrapeShortsWith(NoFaults)

\* a further run of eagle_eye_main: a new process at a later time, with the
\* files the earlier runs left
Restart ==
    /\ pc \in {"done", "crashed"}
    /\ now < 2 * MaxRuns - 1
    /\ pc' = "prompt"
    /\ channels' = <<>>
    /\ idx' = 1
    /\ selection' = None
    /\ choice_info' = None
    /\ max_videos' = <<>>
    /\ format_selection' = <<>>
    /\ user_choice_info' = None
    /\ data' = <<>>
    /\ console' = <<>>
    /\ runs' = <<>>
    /\ now' = now + 1
    /\ UNCHANGED <<number, result, fs, dirs, listed>>

NextRerun == PromptOne \/ ScrapeVideosOk \/ ScrapeStreamsOk \/ ScrapeShortsOk \/ Combine \/ Restart

SpecRerun == Init /\ [][NextRerun]_vars

----------------------------------------------------------------------------
(* Ctrl+C.  signal_handler prints its notice and calls sys.exit(0), which  *)
(* raises SystemExit where main is at that moment.  'except Exception'     *)
(* lets SystemExit pass; the finally clause of scrape_channel runs on its  *)
(* way out.  pc "interrupted" is the process ended by SystemExit(0), pc    *)
(* "crashed" the process ended by an exception nothing caught.             *)

InterruptNotice == [what |-> "interrupt", about |-> <<>>]

\* main's choice of the module whose scrape_channel it calls
scrape_channel(sel, c, n, fault, max, choice, fs0, dirs0, listing, ts) ==
    IF sel = "videos"
    THEN videos_scrape_channel(Token(c), Page("videos", c, n, fault), fault, max, choice,
                               fs0, dirs0, listing, ts)
    ELSE IF sel = "streams"
    THEN streams_scrape_channel(Token(c), Page("streams", c, n, fault), fault, max,
                                fs0, dirs0, ts)
    ELSE shorts_scrape_channel(Token(c), Page("shorts", c, n, fault), fault, max, fs0, dirs0)

\* the interrupt arrives while main waits at one of its prompts
InterruptAtPrompt ==
    /\ pc = "prompt"
    /\ console' = Append(console, InterruptNotice)
    /\ pc' = "interrupted"
    /\ UNCHANGED <<number, result, channels, idx, selection, choice_info, max_videos,
                   format_selection, user_choice_info, data, fs, dirs, runs, now, listed>>

\* the interrupt arrives inside the try block of scrape_channel: in
\* setup_webdriver(), when 'driver' is not bound yet and 'if driver:' of the
\* finally clause raises UnboundLocalError in the place of SystemExit; later
\* during the extraction; or at write w of the export, the writes before it
\* done
InterruptInScrape ==
    /\ pc = "scrape"
    /\ \E point \in {"setup", "extraction", "export"}, n \in 0..MaxItems, w \in 1..4 :
          /\ point # "export" => (n = 0 /\ w = 1)
          /\ pc' = IF point = "setup" THEN "crashed" ELSE "interrupted"
          /\ fs' = IF point = "export"
                   THEN scrape_channel(selection, channels[idx], n, [kind |-> "ioFail", at |-> w],
                                       max_videos, choice_info, fs, dirs, <<>>, now).fs
                   ELSE fs
          /\ dirs' = IF point = "export"
                     THEN scrape_channel(selection, channels[idx], n, [kind |-> "ioFail", at |-> w],
                                         max_videos, choice_info, fs, dirs, <<>>, now).dirs
                     ELSE dirs
    /\ console' = Append(console, InterruptNotice)
    /\ UNCHANGED <<number, result, channels, idx, selection, choice_info, max_videos,
                   format_selection, user_choice_info, data, runs, now, listed>>

\* the combined files in the order main writes them
CombinedOrder == <<"csv", "txt", "xlsx", "json">>

\* the combined file of an extension
CombinedFile(ext, columns) ==
    IF ext = "csv" THEN [form |-> "table", header |-> columns, rows |-> data]
    ELSE IF ext = "txt" THEN TxtFile(columns, data)
    ELSE TableFile(DataFrame(data, columns))

\* the interrupt arrives after main's for loop: before the combined export,
\* or after k of its writes
InterruptInCombine ==
    /\ pc = "combine"
    /\ \E k \in 0..3 :
          LET columns == IF selection = "shorts" THEN ShortColumns ELSE VideoColumns
              folder  == << <<"downloads">>, <<"all_", selection, "_channels">> >>
              out     == {[dir |-> folder,
                           stem |-> << <<"all">>, <<selection>>, <<"eagle">>, <<"eye">>, Stamp(now)>>,
                           ext |-> CombinedOrder[j]] : j \in 1..k}
          IN  /\ k > 0 => /\ data # <<>>
                          /\ ~DataFrame(data, columns).raised
                          /\ \E i \in 1..Len(format_selection) : format_selection[i] = "5"
                          /\ choice_info = "1"
              /\ fs' = [p \in DOMAIN fs \cup out |->
                          IF p \in out THEN CombinedFile(p.ext, columns) ELSE fs[p]]
              /\ dirs' = IF k > 0 THEN dirs \cup {folder} ELSE dirs
    /\ console' = Append(console, InterruptNotice)
    /\ pc' = "interrupted"
    /\ UNCHANGED <<number, result, channels, idx, selection, choice_info, max_videos,
                   format_selection, user_choice_info, data, runs, now, listed>>

NextInterrupt == Prompt \/ ScrapeVideosOk \/ ScrapeStreamsOk \/ ScrapeShortsOk \/ Combine \/ InterruptAtPrompt \/ InterruptInScrape \/ InterruptInCombine

SpecInterrupt == Init /\ [][NextInterrupt]_vars

----------------------------------------------------------------------------
(* format_number on its own.                                               *)

NotCalled == [exc |-> "pending", val |-> <<>>]

InitFmt ==
    /\ number \in FmtInputs
    /\ result = NotCalled
    /\ pc = "format"
    /\ channels = <<>>
    /\ idx = 1
    /\ selection = None
    /\ choice_info = None
    /\ max_videos = <<>>
    /\ format_selection = <<>>
    /\ user_choice_info = None
    /\ data = <<>>
    /\ fs = <<>>
    /\ dirs = {}
    /\ console = <<>>
    /\ runs = <<>>
    /\ now = 1
    /\ listed = <<>>

FormatNumberCall ==
    /\ result = NotCalled
    /\ result' = format_number(number)
    /\ UNCHANGED number
    /\ UNCHANGED runVars

NextFmt == FormatNumberCall

SpecFmt == InitFmt /\ [][NextFmt]_vars

----------------------------------------------------------------------------
(* merge_summary_files on its own: a summary folder that holds per-channel *)
(* summary files and other files, merged up to MaxMerges times, with a     *)
(* further summary file arriving at any moment.                            *)

\* the summary row of channel c: channel 3 describes itself as 'N/A'
SummaryRowOf(c) ==
    <<Handle(c), Identifier(c), IF c = 3 THEN <<"N", "/", "A">> ELSE <<"d">>,
      <<"[", "]">>, <<"2", ",", "0", "0", "0">>,
      <<"J", Digits[c + 1]>>, <<"L", Digits[c + 1]>>, <<"G", Digits[c + 1]>> >>

\* <name>_summary.<ext> in the summary folder
SummaryPath(name, ext) ==
    [dir |-> SummaryFolder, stem |-> <<name, <<"summary">> >>, ext |-> ext]

\* a summary table of the channels cs
SummaryTable(cs) ==
    [form |-> "table", header |-> SummaryColumns, rows |-> [i \in 1..Len(cs) |-> SummaryRowOf(cs[i])]]

\* the files a summary folder may hold at first: two files the merger
\* matches, the second of two rows, and an XLSX file it does not match
FolderFiles ==
    (SummaryPath(Handle(1), "csv") :> SummaryTable(<<1>>))
        @@ (SummaryPath(Handle(2), "csv") :> SummaryTable(<<2, 1>>))
        @@ (SummaryPath(Handle(1), "xlsx") :> SummaryTable(<<1>>))

\* the file that arrives later
LateFiles == SummaryPath(Handle(3), "csv") :> SummaryTable(<<3>>)

\* the orders in which a directory lists its files once the files new were
\* created in it: the files listed before keep their order
RECURSIVE InsertAll(_, _)
InsertAll(orders, new) ==
    IF new = {} THEN orders
    ELSE LET p == CHOOSE x \in new : TRUE
         IN  InsertAll(UNION {{SubSeq(l, 1, i) \o <<p>> \o SubSeq(l, i + 1, Len(l)) :
                                  i \in 0..Len(l)} : l \in orders},
                       new \ {p})

\* the orders in which a directory lists its files once the files of one
\* stem, written together, were created in it: they are listed next to each
\* other, in the order of Exts
InsertTogether(orders, new) ==
    LET block == SelectSeq([k \in 1..4 |-> [dir |-> (CHOOSE x \in new : TRUE).dir,
                                            stem |-> (CHOOSE x \in new : TRUE).stem,
                                            ext |-> Exts[k]]],
                           LAMBDA q : q \in new)
    IN  IF new = {} THEN orders
        ELSE UNION {{SubSeq(l, 1, i) \o block \o SubSeq(l, i + 1, Len(l)) : i \in 0..Len(l)} :
                       l \in orders}

\* os.listdir(folder) after it last listed old
Relist(old, fs0, folder) ==
    LET files == {p \in DOMAIN fs0 : p.dir = folder}
        kept  == {i \in 1..Len(old) : old[i] \in files}
        nth(k) == CHOOSE i \in kept : Cardinality({j \in kept : j < i}) = k - 1
        new   == files \ {old[i] : i \in kept}
        together == {p \in new : \E q \in new : q # p /\ q.stem = p.stem}
    IN  InsertTogether(InsertAll({[k \in 1..Cardinality(kept) |-> old[nth(k)]]}, new \ together),
                       together)

InitMerge ==
    /\ number = <<>>
    /\ result = [exc |-> "pending", val |-> <<>>]
    /\ pc = "merge"
    /\ channels = <<>>
    /\ idx = 1
    /\ selection = None
    /\ choice_info = None
    /\ max_videos = <<>>
    /\ format_selection = <<>>
    /\ user_choice_info = None
    /\ data = <<>>
    /\ \E F \in SUBSET DOMAIN FolderFiles : fs = [p \in F |-> FolderFiles[p]]
    /\ dirs = {Downloads, SummaryFolder}
    /\ console = <<>>
    /\ runs = <<>>
    /\ now = 1
    /\ listed \in Listings(fs, SummaryFolder)

\* one call merge_summary_files("./downloads/summary_channels")
MergeCall ==
    /\ pc = "merge"
    /\ Len(runs) < MaxMerges
    /\ \E listing \in Relist(listed, fs, SummaryFolder) :
          /\ fs' = merge_summary_files(fs, SummaryFolder, listing).fs
          /\ console' = console \o merge_summary_files(fs, SummaryFolder, listing).console
          /\ listed' = listing
          /\ runs' = Append(runs, [listing |-> listing, before |-> fs,
                                   after |-> merge_summary_files(fs, SummaryFolder, listing).fs,
                                   console |-> merge_summary_files(fs, SummaryFolder, listing).console])
    /\ UNCHANGED <<number, result, pc, channels, idx, selection, choice_info, max_videos,
                   format_selection, user_choice_info, data, dirs, now>>

\* a per-channel summary file is put into the folder
AddSummary ==
    /\ pc = "merge"
    /\ \E p \in DOMAIN LateFiles \ DOMAIN fs :
          fs' = [q \in DOMAIN fs \cup {p} |-> IF q = p THEN LateFiles[p] ELSE fs[q]]
    /\ UNCHANGED <<number, result, pc, channels, idx, selection, choice_info, max_videos,
                   format_selection, user_choice_info, data, dirs, console, runs, now, listed>>

NextMerge == MergeCall \/ AddSummary

SpecMerge == InitMerge /\ [][NextMerge]_vars

----------------------------------------------------------------------------
(* Properties of format_number, under SpecFmt.                             *)

Called == result # NotCalled

\* the last character is one of K, k, M, m
Suffixed(n) == n # <<>> /\ n[Len(n)] \in {"K", "k", "M", "m"}

\* the text handed to the number parser
ParsedText(n) == IF Suffixed(n) THEN SubSeq(n, 1, Len(n) - 1) ELSE n

\* a plain integer string: decimal digits only, at least one
IsPlainInteger(s) == s # <<>> /\ \A i \in 1..Len(s) : IsDigit(s[i])

\* a decimal number: digits with at most one point, at least one digit
IsDecimal(s) ==
    /\ \A i \in 1..Len(s) : IsDigit(s[i]) \/ s[i] = "."
    /\ Cardinality({i \in 1..Len(s) : s[i] = "."}) <= 1
    /\ \E i \in 1..Len(s) : IsDigit(s[i])

\* the digits of floor(s * 10^z) for a decimal number s, by moving the point
ScaledDigits(s, z) ==
    LET dots == {i \in 1..Len(s) : s[i] = "."}
        dot  == IF dots = {} THEN Len(s) + 1 ELSE CHOOSE i \in dots : TRUE
        ip   == SubSeq(s, 1, dot - 1)
        fp   == SubSeq(s, dot + 1, Len(s))
    IN  ip \o [i \in 1..z |-> IF i <= Len(fp) THEN fp[i] ELSE "0"]

\* without leading zeros, down to one digit
StripZeros(ds) ==
    LET nz == {i \in 1..Len(ds) : ds[i] # "0"}
    IN  IF nz = {} THEN <<"0">>
        ELSE SubSeq(ds, CHOOSE i \in nz : \A j \in nz : i <= j, Len(ds))

\* digits with a comma before every group of three counted from the right
Grouped(ds) ==
    LET L  == Len(ds)
        g1 == ((L - 1) % 3) + 1
    IN  [i \in 1..(L + ((L - 1) \div 3)) |->
            IF i <= g1 THEN ds[i]
            ELSE LET k == i - g1 - 1
                 IN  IF k % 4 = 0 THEN "," ELSE ds[g1 + 3 * (k \div 4) + (k % 4)]]

\* the decimal places the suffix of n moves the point by
SuffixPlaces(n) == IF n[Len(n)] \in {"K", "k"} THEN 3 ELSE 6

\* C6: format_number is total: whatever the input string, the empty string, a
\* lone suffix letter, 'inf' and 'nan' included, a call returns a string and
\* raises nothing.
C6_Total == Called => result.exc = "none"

\* C7: a suffixed input with a decimal number before the suffix gives that
\* number times 1,000 (K, k) or 1,000,000 (M, m), truncated and written with
\* thousands separators; an unsuffixed integer string gives that integer with
\* thousands separators; '1.2K', '2M', '350' and 'N/A' give '1,200',
\* '2,000,000', '350' and 'N/A'.
C7_SuffixArithmetic ==
    Called =>
        /\ (Suffixed(number) /\ IsDecimal(ParsedText(number)))
              => result = Return(Grouped(StripZeros(
                            ScaledDigits(ParsedText(number), SuffixPlaces(number)))))
        /\ (~Suffixed(number) /\ IsPlainInteger(number))
              => result = Return(Grouped(StripZeros(number)))
        /\ number = <<"1", ".", "2", "K">> => result = Return(<<"1", ",", "2", "0", "0">>)
        /\ number = <<"2", "M">>
              => result = Return(<<"2", ",", "0", "0", "0", ",", "0", "0", "0">>)
        /\ number = <<"3", "5", "0">> => result = Return(<<"3", "5", "0">>)
        /\ number = <<"N", "/", "A">> => result = Return(<<"N", "/", "A">>)

----------------------------------------------------------------------------
(* Properties of scrape_channel on one channel, under SpecChannel, and of  *)
(* a run of main, under Spec.                                              *)

\* the page run k was given
PageOf(k) == Page(selection, runs[k].channel, runs[k].n, runs[k].fault)

\* the field sequences the loop of scrape_channel indexes, besides titles
FieldSequences(sel, page) ==
    IF sel = "shorts" THEN <<page.metas, page.hrefs>>
    ELSE <<EveryOther(page.metas, 2), EveryOther(page.metas, 1), page.hrefs,
           EveryOther(page.terms, 1)>>

\* every field sequence holds an element for each listed item
Covers(sel, page) ==
    \A q \in 1..Len(FieldSequences(sel, page)) :
        Len(FieldSequences(sel, page)[q]) >= Len(page.titles)

\* some field sequence is shorter or longer than the title sequence
Misaligned(sel, page) ==
    \E q \in 1..Len(FieldSequences(sel, page)) :
        Len(FieldSequences(sel, page)[q]) # Len(page.titles)

\* run k got as far as the assembly loop
ReachedLoop(k) == runs[k].fault.kind \notin {"setupFail", "loadFail", "attrsMissing"}

FieldCount(sel) == IF sel = "shorts" THEN 6 ELSE 8

\* C1: when every field sequence of the page holds an element for each of the
\* n listed items, scrape_channel returns n records (min(n, max_videos) with a
\* cap), and record j is the one of item j of the listing.
C1_CountAndOrder ==
    \A k \in 1..Len(runs) :
        (ReachedLoop(k) /\ Covers(selection, PageOf(k))) =>
            /\ Len(runs[k].video_data) = LoopLimit(runs[k].n, max_videos)
            /\ \A j \in 1..Len(runs[k].video_data) :
                  \E f \in 1..Len(runs[k].video_data[j]) :
                      runs[k].video_data[j][f] = ItemIdOf(j)

\* C2: when the field sequences of a page do not all have the length of the
\* title sequence, scrape_channel returns no record at all.
C2_MismatchYieldsNothing ==
    \A k \in 1..Len(runs) :
        (ReachedLoop(k) /\ Misaligned(selection, PageOf(k))) => runs[k].video_data = <<>>

\* the records of the channels processed without failure, in order
RECURSIVE RecordsOfSound(_)
RecordsOfSound(k) ==
    IF k = 0 THEN <<>>
    ELSE RecordsOfSound(k - 1)
            \o (IF runs[k].outcome = "ok" THEN runs[k].video_data ELSE <<>>)

\* C3: the combined list of main holds only the records of the channels
\* that were processed without failure.
C3_FailedContributesNothing ==
    pc \in {"combine", "done"} => data = RecordsOfSound(Len(runs))

\* C4: whatever fails while a channel is processed, a failure to start the
\* page loader included, scrape_channel reports it and returns normally, and
\* main goes on to every remaining channel.
C4_FailureContained ==
    /\ \A k \in 1..Len(runs) :
          /\ runs[k].outcome \in {"ok", "failed"}
          /\ runs[k].fault.kind = "setupFail"
                => \E m \in 1..Len(console) :
                      console[m] = [what |-> "error", about |-> Token(runs[k].channel)]
    /\ pc \in {"done", "crashed"} => Len(runs) = Len(channels)

\* C5: every record has the field count of its variant, 8 for videos and
\* streams, 6 for shorts, 8 for the channel summary, also when a title, a
\* description or a keyword holds a tab.
C5_FieldCount ==
    \A k \in 1..Len(runs) :
        /\ \A j \in 1..Len(runs[k].video_data) :
              Len(runs[k].video_data[j]) = FieldCount(selection)
        /\ \A j \in 1..Len(runs[k].channel_data) : Len(runs[k].channel_data[j]) = 8

\* C9: with the summary granularity, a channel whose page and attributes
\* were extracted yields exactly one summary record, whatever the number of
\* listed items and whatever max_videos.
C9_OneSummaryRecord ==
    (selection = "videos" /\ choice_info = "2") =>
        \A k \in 1..Len(runs) :
            (ReachedLoop(k) /\ ~Misaligned(selection, PageOf(k))
                /\ runs[k].fault.kind \notin {"emptyViews", "ioFail"})
                => Len(runs[k].channel_data) = 1

\* the consolidated files merge_summary_files writes
Consolidated ==
    {p \in DOMAIN fs : p.dir = SummaryFolder
                       /\ p.stem = << <<"summary">>, <<"all">>, <<"channels">> >>}

\* the channels of the run exported without failure
Exported == {k \in 1..Len(runs) : runs[k].outcome = "ok"}

\* C10: after a summary run in which some channel was exported, the
\* summary_channels directory holds the consolidated files of
\* merge_summary_files, with one row per exported channel.
C10_ConsolidatedSummary ==
    (pc = "done" /\ selection = "videos" /\ choice_info = "2" /\ Exported # {}) =>
        /\ Consolidated # {}
        /\ \A p \in Consolidated : Len(fs[p].rows) = Cardinality(Exported)

----------------------------------------------------------------------------
(* Properties of merge_summary_files, under SpecMerge.                     *)

\* the name of p ends with the summary suffix '_summary.csv'
HasSummarySuffix(p) ==
    p.ext = "csv" /\ Len(p.stem) >= 2 /\ p.stem[Len(p.stem)] = <<"summary">>

\* the files of call k whose name ends with the summary suffix, as listed
MatchedBy(k) == SelectSeq(runs[k].listing, HasSummarySuffix)

\* the rows of the files m of the folder files, file after file
RECURSIVE RowsInOrder(_, _)
RowsInOrder(files, m) ==
    IF m = <<>> THEN <<>> ELSE files[Head(m)].rows \o RowsInOrder(files, Tail(m))

\* summary_all_channels.<ext>
AggregatePath(ext) ==
    [dir |-> SummaryFolder, stem |-> << <<"summary">>, <<"all">>, <<"channels">> >>, ext |-> ext]

AllExts == {"txt", "csv", "xlsx", "json"}

\* C11: over a folder with at least one matching file, the aggregate holds the
\* rows of every matching file, in the order the files were listed and with
\* each file's row order kept; k one-row files give k rows; the four formats
\* hold the same rows.
C11_AggregateIsConcatenation ==
    \A k \in 1..Len(runs) :
        MatchedBy(k) # <<>> =>
            \A e \in AllExts :
                /\ AggregatePath(e) \in DOMAIN runs[k].after
                /\ runs[k].after[AggregatePath(e)].rows = RowsInOrder(runs[k].before, MatchedBy(k))
                /\ (\A i \in 1..Len(MatchedBy(k)) : Len(runs[k].before[MatchedBy(k)[i]].rows) = 1)
                      => Len(runs[k].after[AggregatePath(e)].rows) = Len(MatchedBy(k))

\* C12: over a folder with no matching file, merge_summary_files creates and
\* changes no file, reports that nothing was merged, and returns.
C12_NoMatchNoWrite ==
    \A k \in 1..Len(runs) :
        MatchedBy(k) = <<>> =>
            /\ runs[k].after = runs[k].before
            /\ runs[k].console = <<[what |-> "no summary files", about |-> <<>>]>>

\* a call on a folder that holds only a file the merger does not match
C12_Witness ==
    \E k \in 1..Len(runs) :
        /\ MatchedBy(k) = <<>>
        /\ Len(runs[k].listing) = 1
        /\ runs[k].after = runs[k].before

\* the per-channel summary files call k found, with their content
SummariesOf(k) ==
    [p \in {MatchedBy(k)[i] : i \in 1..Len(MatchedBy(k))} |-> runs[k].before[p]]

----------------------------------------------------------------------------
(* Properties of the export files, checked under Spec and SpecChannel.     *)

\* the variant a pass of the run exports for its channel
VariantOf ==
    IF selection = "videos" THEN (IF choice_info = "1" THEN "videos" ELSE "summary")
    ELSE selection

\* downloads/all_<selection>_channels, the folder of the combined files
CombinedFolder == << <<"downloads">>, <<"all_", selection, "_channels">> >>

\* the files the passes of the run wrote for their channels
PerChannelFiles == {p \in DOMAIN fs : p.dir # CombinedFolder /\ p.dir # SummaryFolder}

\* <output_root>/<channel_name>/<channel_name>_<variant>_<run_timestamp>.<ext>
\* for pass k of the run
AtPatternOf(p, k) ==
    /\ p.dir = << <<"downloads">>, Handle(runs[k].channel) >>
    /\ p.stem = <<Handle(runs[k].channel), <<VariantOf>>, Stamp(runs[k].stamp)>>

\* C14: every per-channel export file, of every variant and format, is at
\* downloads/<channel_name>/<channel_name>_<variant>_<run_timestamp>.<ext>,
\* channel_name being the handle shown on the page.
C14_PerChannelPath ==
    \A p \in PerChannelFiles : \E k \in 1..Len(runs) : AtPatternOf(p, k)

\* C15: runs at different times over the same channel and content type leave
\* each other's per-channel and combined files alone: no step of a run
\* replaces a file that is there.
C15_NoOverwrite ==
    [][\A p \in DOMAIN fs : p.dir # SummaryFolder => p \in DOMAIN fs' /\ fs'[p] = fs[p]]_vars

\* the menu of get_format_selection: 1 CSV, 2 TXT, 3 XLSX, 4 JSON
FormatExt == ("1" :> "csv") @@ ("2" :> "txt") @@ ("3" :> "xlsx") @@ ("4" :> "json")

\* the extensions of the formats the user asked for, 5 being all of them
Requested ==
    IF \E i \in 1..Len(format_selection) : format_selection[i] = "5"
    THEN AllExts
    ELSE {FormatExt[format_selection[i]] : i \in 1..Len(format_selection)}

\* C16: the per-channel files of a channel are one per requested format: a
\* format the user did not select is never written, and each format the
\* user selected is written for a channel whose export went through.
C16_OnlyRequestedFormats ==
    /\ \A p \in PerChannelFiles : p.ext \in Requested
    /\ \A k \in 1..Len(runs) :
          runs[k].outcome = "ok" =>
              \A e \in Requested :
                  \E p \in PerChannelFiles : p.ext = e /\ p.stem[1] = Handle(runs[k].channel)

\* the column names a file starts with: the fields of the first line of a
\* TXT file, the header of a CSV or XLSX file, the keys of a JSON file
HeaderOf(file) == IF file.form = "lines" THEN SplitOn(file.lines[1], TAB) ELSE file.header

\* the columns declared for the variant the run exports
Schema ==
    IF VariantOf = "summary" THEN SummaryColumns
    ELSE IF VariantOf = "shorts" THEN ShortColumns
    ELSE VideoColumns

\* C17: every file written, per channel or combined, in every format, starts
\* with the column names declared for its variant, character for character
\* and in the same order.
C17_DeclaredColumnNames ==
    \A p \in DOMAIN fs : p.dir # SummaryFolder => HeaderOf(fs[p]) = Schema

\* the records pass k of the run assembled for the variant it exports
RecordsOf(k) ==
    IF VariantOf = "summary" THEN runs[k].channel_data ELSE runs[k].video_data

\* C18: the CSV file and the JSON file of a channel hold one row, or one
\* object, per assembled record, in the order of the records, and the fields
\* of row j and of object j are the fields of record j, in every variant.
C18_RowsAreRecords ==
    \A k \in 1..Len(runs) :
        \A p \in PerChannelFiles :
            (p.ext \in {"csv", "json"} /\ p.stem[1] = Handle(runs[k].channel))
                => fs[p].rows = RecordsOf(k)

----------------------------------------------------------------------------
(* Properties of the run, checked under Spec.                              *)

\* C19: once get_user_choice_info has returned a value, the value is '1' or
\* '2', the calls the videos scrape_channel makes for the channels of the run
\* return that same value without a prompt, and it is the value main holds.
C19_ChoiceFixedForRun ==
    (selection = "videos" /\ pc # "prompt") =>
        /\ user_choice_info \in {"1", "2"}
        /\ choice_info = user_choice_info
        /\ \A k \in 1..Len(runs) :
              runs[k].choice = user_choice_info /\ ~runs[k].prompted

\* two channels were processed at the summary granularity chosen at the start
C19_Witness ==
    /\ selection = "videos"
    /\ Len(runs) = 2
    /\ runs[1].choice = "2"
    /\ runs[2].choice = "2"
    /\ user_choice_info = "2"

----------------------------------------------------------------------------
(* Properties of an interrupted run, checked under SpecInterrupt.          *)

\* the interrupt notice was printed
Interrupted == \E i \in 1..Len(console) : console[i] = InterruptNotice

\* C20: wherever the interrupt arrives (a prompt, the set-up of the page
\* loader, the extraction, a per-channel export, the combined export), the
\* notice is the last thing the process prints and the process ends with
\* exit status 0, which is SystemExit(0) reaching the top.
C20_InterruptExitsZero ==
    Interrupted => (pc = "interrupted" /\ console[Len(console)] = InterruptNotice)

----------------------------------------------------------------------------
(* Properties of the combined export, checked under Spec.                  *)

\* the process has ended
Ended == pc \in {"done", "crashed"}

\* main has printed the message w
Reported(w) == \E i \in 1..Len(console) : console[i].what = w

\* the combined files of the run
CombinedFiles == {p \in DOMAIN fs : p.dir = CombinedFolder}

\* C21: a run whose channels gave no record at all ends with no combined
\* file and with the report that no data was scraped; the total count and
\* the completion message are printed only when there is a record.
C21_NothingScraped ==
    Ended =>
        /\ data = <<>> => (CombinedFiles = {} /\ Reported("no data"))
        /\ (Reported("total") \/ Reported("completed")) => data # <<>>

\* the records the first k passes of the run returned, pass after pass
RECURSIVE ReturnedUpTo(_)
ReturnedUpTo(k) == IF k = 0 THEN <<>> ELSE ReturnedUpTo(k - 1) \o runs[k].video_data

\* the rows of a combined file
RowsOf(file) ==
    IF file.form = "lines"
    THEN [j \in 1..(Len(file.lines) - 1) |-> SplitOn(file.lines[j + 1], TAB)]
    ELSE file.rows

\* C22: the combined list is the records the channels returned, channel
\* after channel in the order requested and each channel's records in the
\* order returned, each channel capped on its own by max_videos; every
\* combined file lists its rows in that order.
C22_CombinedOrder ==
    /\ \A k \in 1..Len(runs) :
          /\ runs[k].channel = channels[k]
          /\ max_videos # <<>> => Len(runs[k].video_data) <= max_videos[1]
    /\ pc \in {"combine", "done"} => data = ReturnedUpTo(Len(runs))
    /\ \A p \in CombinedFiles : RowsOf(fs[p]) = ReturnedUpTo(Len(runs))

\* a run over two channels that gave records both, the second channel's
\* differing from the first's, whose combined files were written
C22_Witness ==
    /\ pc = "done"
    /\ Len(runs) = 2
    /\ runs[1].video_data # <<>>
    /\ runs[2].video_data # <<>>
    /\ runs[1].video_data # runs[2].video_data
    /\ Cardinality(CombinedFiles) = 4

\* the extensions of the writes that come before write w of an export
WrittenBefore(w) == {Exts[j] : j \in 1..(w - 1)}

\* this step is a pass of the run in which a write of the export failed
WriteFailedNow ==
    /\ Len(runs') = Len(runs) + 1
    /\ runs'[Len(runs')].fault.kind = "ioFail"
    /\ VariantOf = "summary" => runs'[Len(runs')].video_data # <<>>

\* C23: when a write of a channel's export fails, the pass writes the files
\* that come before it and no other, the failure is reported for the
\* channel, and main goes on to the next channel or to the combined export.
C23_WriteFailureContained ==
    [][WriteFailedNow =>
          /\ runs'[Len(runs')].outcome = "failed"
          /\ console' = console \o ErrorReport(Token(runs'[Len(runs')].channel))
          /\ idx' = idx + 1
          /\ pc' = IF idx = Len(channels) THEN "combine" ELSE "scrape"
          /\ \A p \in DOMAIN fs' :
                (p \notin DOMAIN fs \/ fs'[p] # fs[p])
                    => p.ext \in WrittenBefore(runs'[Len(runs')].fault.at)
          /\ \A e \in WrittenBefore(runs'[Len(runs')].fault.at) :
                \E p \in DOMAIN fs' : p.ext = e /\ p.stem[1] = Handle(runs'[Len(runs')].channel)]_vars

\* the export of the first channel failed at a write, leaving two files, and
\* the second channel was processed and has its four files
C23_Witness ==
    /\ Len(runs) = 2
    /\ runs[1].fault.kind = "ioFail"
    /\ runs[1].outcome = "failed"
    /\ runs[2].outcome = "ok"
    /\ runs[2].channel # runs[1].channel
    /\ Cardinality({p \in DOMAIN fs : p.stem[1] = Handle(runs[1].channel)}) = 2
    /\ Cardinality({p \in DOMAIN fs : p.stem[1] = Handle(runs[2].channel)}) = 4

\* the user selected '5', all available formats
AllFormats == \E i \in 1..Len(format_selection) : format_selection[i] = "5"

\* all_<variant>_eagle_eye_<run_timestamp>.<ext> under all_<variant>_channels
CombinedPath(ext) ==
    [dir |-> CombinedFolder,
     stem |-> << <<"all">>, <<selection>>, <<"eagle">>, <<"eye">>, Stamp(now)>>,
     ext |-> ext]

\* C24: a run with all formats selected, the item granularity and at least
\* one record ends with the four combined files, each holding the combined
\* list; a run with the summary granularity ends with no combined file.
C24_CombinedAllFormats ==
    Ended =>
        /\ (AllFormats /\ choice_info = "1" /\ data # <<>>)
              => /\ CombinedFiles = {CombinedPath(e) : e \in AllExts}
                 /\ \A p \in CombinedFiles : RowsOf(fs[p]) = data
        /\ choice_info = "2" => CombinedFiles = {}

\* C25: a run with the item granularity, at least one record and a selection
\* of individual formats saves the combined data in each selected format and
\* ends normally, with the total count and the completion message.
C25_IndividualFormatsTerminate ==
    (Ended /\ ~AllFormats /\ choice_info = "1" /\ data # <<>>) =>
        /\ pc = "done"
        /\ Reported("total") /\ Reported("completed")
        /\ \A e \in Requested : CombinedPath(e) \in DOMAIN fs

----------------------------------------------------------------------------
(* Properties of the assembled records, checked under SpecChannel.         *)

\* the part of s after the last ch, all of s when it holds no ch
AfterLast(s, ch) ==
    LET at == {i \in 1..Len(s) : s[i] = ch}
    IN  IF at = {} THEN s
        ELSE SubSeq(s, (CHOOSE i \in at : \A j \in at : j <= i) + 1, Len(s))

\* the part of s before the first ch, all of s when it holds no ch
BeforeFirst(s, ch) ==
    LET at == {i \in 1..Len(s) : s[i] = ch}
    IN  IF at = {} THEN s
        ELSE SubSeq(s, 1, (CHOOSE i \in at : \A j \in at : i <= j) - 1)

\* the place of Video_views among the columns; Video_id and Link follow it
ViewsColumn == IF selection = "shorts" THEN 4 ELSE 5

\* the raw count text of item i of the page of pass k
RawCount(k, i) ==
    IF selection = "shorts" THEN PageOf(k).metas[i] ELSE PageOf(k).metas[2 * i - 1]

\* C26: in record i, Video_id is the part of the item's href after its last
\* '=' (after its last '/' for shorts), Link is the site origin followed by
\* the href, and Video_views is format_number of the first token of the raw
\* count text; items with the raw views '15K' and '900' give '15,000' and
\* '900' in that order.
C26_DerivedFields ==
    \A k \in 1..Len(runs) :
        /\ \A i \in 1..Len(runs[k].video_data) :
              /\ runs[k].video_data[i][ViewsColumn]
                    = format_number(BeforeFirst(RawCount(k, i), " ")).val
              /\ runs[k].video_data[i][ViewsColumn + 1]
                    = AfterLast(PageOf(k).hrefs[i], IF selection = "shorts" THEN "/" ELSE "=")
              /\ runs[k].video_data[i][ViewsColumn + 2] = Origin \o PageOf(k).hrefs[i]
        /\ (Len(runs[k].video_data) = 2 /\ runs[k].fault.kind = "none")
              => /\ runs[k].video_data[1][ViewsColumn] = <<"1", "5", ",", "0", "0", "0">>
                 /\ runs[k].video_data[2][ViewsColumn] = <<"9", "0", "0">>

----------------------------------------------------------------------------
(* Properties of the records of a run over several channels, under Spec.   *)

\* C27: every record returned for a page carries the handle and the
\* identifier of that page, the handle stripped as it was read before the
\* loop, and so no record carries the handle or the identifier of another
\* channel.
C27_ChannelAttributes ==
    \A k \in 1..Len(runs) :
        \A i \in 1..Len(runs[k].video_data) :
            /\ runs[k].video_data[i][1] = Strip(PageOf(k).handle)
            /\ runs[k].video_data[i][2] = PageOf(k).identifier
            /\ \A c \in ChannelIds \ {runs[k].channel} :
                  /\ runs[k].video_data[i][1] # Handle(c)
                  /\ runs[k].video_data[i][2] # Identifier(c)

\* two different channels were processed and each returned two records
C27_Witness ==
    /\ Len(runs) = 2
    /\ runs[1].channel # runs[2].channel
    /\ Len(runs[1].video_data) = 2
    /\ Len(runs[2].video_data) = 2

----------------------------------------------------------------------------
(* Properties of the formats of one export, checked under SpecChannel.     *)

\* C28: the format files of an export are written from the one assembled
\* record sequence, none from another file read back: every file of the
\* channel, whatever its format, holds the assembled records, and so does
\* every combined file.
C28_OneRecordSequence ==
    /\ \A k \in 1..Len(runs) :
          \A p \in PerChannelFiles :
              p.stem[1] = Handle(runs[k].channel) => RowsOf(fs[p]) = RecordsOf(k)
    /\ \A p \in CombinedFiles : RowsOf(fs[p]) = data

\* C29: a record is written by one export of the run only: no record that a
\* per-channel export wrote is written by the combined export as well.
C29_ConsumedOnce ==
    \A p \in PerChannelFiles, q \in CombinedFiles :
        \A i \in 1..Len(RowsOf(fs[p])), j \in 1..Len(RowsOf(fs[q])) :
            RowsOf(fs[p])[i] # RowsOf(fs[q])[j]

\* record r holds the text t as one of its fields
Holds(r, t) == \E f \in 1..Len(r) : r[f] = t

\* the passes the loop of pass k of the run is to make
Wanted(k) == LoopLimit(Len(PageOf(k).titles), max_videos)

\* C30: for videos and streams, record i (from 0) takes its view count from
\* metadata span 2i, its published time from metadata span 2i+1 and its
\* duration from duration span 2i, and the k passes of the loop all complete
\* exactly when the page has at least k title links, 2k metadata spans and
\* 2k-1 duration spans; for shorts, record i takes its view count from
\* metadata span i.  Below, spans and records are counted from 1.
C30_SpanIndexing ==
    \A k \in 1..Len(runs) :
        ReachedLoop(k) =>
            /\ \A i \in 1..Len(runs[k].video_data) :
                  IF selection = "shorts"
                  THEN Holds(runs[k].video_data[i],
                             format_number(BeforeFirst(PageOf(k).metas[i], " ")).val)
                  ELSE /\ Holds(runs[k].video_data[i],
                                format_number(BeforeFirst(PageOf(k).metas[2 * i - 1], " ")).val)
                       /\ Holds(runs[k].video_data[i], PageOf(k).metas[2 * i])
                       /\ Holds(runs[k].video_data[i], Strip(PageOf(k).terms[2 * i - 1]))
            /\ selection # "shorts" =>
                  (Len(runs[k].video_data) = Wanted(k)
                      <=> /\ Len(PageOf(k).titles) >= Wanted(k)
                          /\ Len(PageOf(k).metas) >= 2 * Wanted(k)
                          /\ Len(PageOf(k).terms) >= 2 * Wanted(k) - 1)

====
